---- MODULE Spec2Model ----
(***************************************************************************)
(* AvatarRenderer (src/src/avatarrenderer.ts): the hands-up classifier of  *)
(* update(), the text marker it positions, and the avatar mesh swap of     *)
(* setOutfit()/setModel()/load().                                          *)
(*                                                                         *)
(* Numbers.  Joint coordinates are integers.  A normalised vector is kept  *)
(* as the pair (v, |v|^2) and a cosine as the pair (n, d) standing for the *)
(* real number n / sqrt(d), so that every comparison the code makes with   *)
(* 0.8 and 0.7 is decided exactly.  The marker position is kept in units   *)
(* of 1/LerpDen.                                                           *)
(***************************************************************************)
EXTENDS Integers, Sequences, FiniteSets

VARIABLES
    handsUp,        \* this.handsUp
    textModel,      \* this.textModel: NoMesh or TextRoot
    markerPos,      \* textModel.position, in units of 1/LerpDen
    markerEnabled,  \* textModel.isEnabled()
    model,          \* this.model: NoMesh or the id of a root mesh
    url,            \* this.url
    outfit,         \* this.outfit
    plugin,         \* what the PoseOutfitPlugin is bound to
    sceneMeshes,    \* root meshes attached to the scene
    disposed,       \* root meshes that were disposed
    calls,          \* setOutfit calls suspended at their await
    nCalls,         \* number of setOutfit calls made so far
    thrown,         \* the load whose rejection last reached the caller
    loadPc,         \* position of load()/setupScene()
    loaded,         \* PoseRenderer.loaded
    result,         \* history: the PoseResult of the most recent update call
    decisive,       \* history: outcome of the most recent decisive frame
    lastWrists      \* history: wrists of the last posed frame that met a marker

vars == <<handsUp, textModel, markerPos, markerEnabled, model, url, outfit,
          plugin, sceneMeshes, disposed, calls, nCalls, thrown, loadPc,
          loaded, result, decisive, lastWrists>>

frameVars == <<handsUp, markerPos, markerEnabled, result, decisive, lastWrists>>
swapVars == <<model, url, outfit, plugin, sceneMeshes, disposed, calls,
              nCalls, thrown>>

----------------------------------------------------------------------------
(* Bounds *)

MaxCalls == 2       \* setOutfit calls in one behaviour
MaxInFlight == 2    \* overlapping setOutfit calls in SpecRace

----------------------------------------------------------------------------
(* Meshes *)

NoMesh == 0                \* undefined
TextRoot == MaxCalls + 1   \* the "__root__" mesh of text.glb
Avatars == 1..MaxCalls     \* the "__root__" mesh loaded by call i is mesh i

----------------------------------------------------------------------------
(* Vectors *)

Vec(x, y, z) == <<x, y, z>>
Zero == Vec(0, 0, 0)
Add(a, b) == Vec(a[1] + b[1], a[2] + b[2], a[3] + b[3])
Subtract(a, b) == Vec(a[1] - b[1], a[2] - b[2], a[3] - b[3])
Scale(a, k) == Vec(a[1] * k, a[2] * k, a[3] * k)
Dot(a, b) == a[1] * b[1] + a[2] * b[2] + a[3] * b[3]
LengthSquared(a) == Dot(a, a)

\* v.normalize(): the vector v / sqrt(l2); a zero vector stays zero (l2 = 0).
Normalize(v) == [v |-> v, l2 |-> LengthSquared(v)]

\* Vector3.Dot of two normalised vectors: the number n / sqrt(d), and 0 when
\* one of them is the zero vector (then n = 0 and d = 0).
DotUnit(a, b) == [n |-> Dot(a.v, b.v), d |-> a.l2 * b.l2]

SignedSquare(n) == IF n < 0 THEN -(n * n) ELSE n * n
Den(c) == IF c.d = 0 THEN 1 ELSE c.d

\* c1 < c2 as real numbers: t -> sgn(t) * t^2 is strictly increasing.
CosLess(c1, c2) == SignedSquare(c1.n) * Den(c2) < SignedSquare(c2.n) * Den(c1)
CosEq(c1, c2) == ~CosLess(c1, c2) /\ ~CosLess(c2, c1)

\* Math.min(a, b, c, d)
Min2(a, b) == IF CosLess(b, a) THEN b ELSE a
MathMin(a, b, c, d) == Min2(Min2(Min2(a, b), c), d)

Cos08 == [n |-> 4, d |-> 25]    \* 0.8
Cos07 == [n |-> 7, d |-> 100]   \* 0.7

LerpDen == 2
Half == 1   \* 0.5 = Half / LerpDen

\* Variant of Lerp that ignores the amount and returns the end point.
LerpEnd(start, end, amount) == Scale(end, LerpDen)

\* Vector3.Lerp(start, end, amount / LerpDen), in units of 1/LerpDen
Lerp(start, end, amount) ==
    Add(Scale(start, LerpDen), Scale(Subtract(end, start), amount))

----------------------------------------------------------------------------
(* Pose results handed to update() *)

Torso == Vec(1, 1, 0)
HipL == Vec(-3, -3, 0)
HipR == Vec(-1, -3, 0)

\* A pose from the directions of the upper arm and the forearm of each side.
Pose(armL, foreL, armR, foreR) ==
    [hipL |-> HipL, hipR |-> HipR,
     shoulderL |-> Add(HipL, Torso), shoulderR |-> Add(HipR, Torso),
     elbowL |-> Add(Add(HipL, Torso), armL),
     elbowR |-> Add(Add(HipR, Torso), armR),
     wristL |-> Add(Add(Add(HipL, Torso), armL), foreL),
     wristR |-> Add(Add(Add(HipR, Torso), armR), foreR)]

Up == Vec(1, 1, 0)

\* <<upper arm, forearm>> of the left side: straight up; cos exactly 0.8;
\* inside the band; cos exactly 0.7; forearm bent by 90 degrees; elbow on the
\* shoulder (a zero-length upper arm); forearm at exactly 0.8 to the arm.
SidesL == { <<Up, Up>>,
            <<Vec(3, 5, 4), Vec(3, 5, 4)>>,
            <<Vec(3, 4, 4), Vec(3, 4, 4)>>,
            <<Vec(3, 4, 5), Vec(3, 4, 5)>>,
            <<Up, Vec(0, 0, 1)>>,
            <<Vec(0, 0, 0), Up>>,
            <<Up, Vec(3, 5, 4)>> }
\* and of the right side: inside the band; arm hanging down
SidesR == { <<Vec(3, 4, 4), Vec(3, 4, 4)>>,
            <<Vec(-1, -1, 0), Vec(-1, -1, 0)>> }

Poses == { Pose(l[1], l[2], Up, Up) : l \in SidesL }
         \cup { Pose(Up, Up, r[1], r[2]) : r \in SidesR }
         \cup { Pose(Vec(3, 4, 5), Vec(3, 4, 5), Vec(3, 4, 4), Vec(3, 4, 4)) }

\* result.poses missing, empty, or holding one pose
NoPoses == [defined |-> FALSE, poses |-> <<>>]
Results == { NoPoses, [defined |-> TRUE, poses |-> <<>>] }
           \cup { [defined |-> TRUE, poses |-> <<p>>] : p \in Poses }

\* result.poses && result.poses.length > 0
HasPose(r) == r.defined /\ Len(r.poses) > 0

\* min of armLCos, armRCos, foreArmLCos, foreArmRCos
CosMin(pose) ==
    LET torsoL == Normalize(Subtract(pose.shoulderL, pose.hipL))
        torsoR == Normalize(Subtract(pose.shoulderR, pose.hipR))
        armL == Normalize(Subtract(pose.elbowL, pose.shoulderL))
        armR == Normalize(Subtract(pose.elbowR, pose.shoulderR))
        foreArmL == Normalize(Subtract(pose.wristL, pose.elbowL))
        foreArmR == Normalize(Subtract(pose.wristR, pose.elbowR))
        armLCos == DotUnit(torsoL, armL)
        armRCos == DotUnit(torsoR, armR)
        foreArmLCos == DotUnit(foreArmL, armL)
        foreArmRCos == DotUnit(foreArmR, armR)
    IN  MathMin(armLCos, armRCos, foreArmLCos, foreArmRCos)

\* cosMin of every pose that update() is given, computed once
CosMinOf == [pose \in Poses |-> CosMin(pose)]

\* Variant of Hysteresis with cosMin >= 0.8 for the upper threshold.
HysteresisGe(prev, cosMin) ==
    LET up == IF ~CosLess(cosMin, Cos08) THEN TRUE ELSE prev
    IN  IF CosLess(cosMin, Cos07) THEN FALSE ELSE up

\* Variant of Hysteresis with cosMin <= 0.7 for the lower threshold.
HysteresisLe(prev, cosMin) ==
    LET up == IF CosLess(Cos08, cosMin) THEN TRUE ELSE prev
    IN  IF ~CosLess(Cos07, cosMin) THEN FALSE ELSE up

\* Variant of Hysteresis with a single threshold and no band.
HysteresisNone(prev, cosMin) == CosLess(Cos08, cosMin)

\* if (cosMin > 0.8) handsUp = true; if (cosMin < 0.7) handsUp = false;
Hysteresis(prev, cosMin) ==
    LET up == IF CosLess(Cos08, cosMin) THEN TRUE ELSE prev
    IN  IF CosLess(cosMin, Cos07) THEN FALSE ELSE up

\* Variant of PositionTextModel without the if (textModel) guard.
PositionTextModelUnguarded(pose, up) ==
    /\ markerPos' = Lerp(pose.wristL, pose.wristR, Half)
    /\ markerEnabled' = up

\* if (textModel) { textModel.position = Lerp(...); textModel.setEnabled(handsUp) }
PositionTextModel(pose, up) ==
    IF textModel # NoMesh
    THEN /\ markerPos' = Lerp(pose.wristL, pose.wristR, Half)
         /\ markerEnabled' = up
    ELSE UNCHANGED <<markerPos, markerEnabled>>

\* The outcome a frame decides, or the standing one when it decides nothing.
\* (Stated from the frame alone, for the history variable decisive.)
Decided(r, standing) ==
    IF ~HasPose(r) THEN "down"
    ELSE LET cosMin == CosMinOf[r.poses[1]]
         IN  IF CosLess(Cos08, cosMin) THEN "up"
             ELSE IF CosLess(cosMin, Cos07) THEN "down"
             ELSE standing

\* The history variables after update(r)
Ghosts(r) ==
    /\ result' = r
    /\ decisive' = Decided(r, decisive)
    /\ lastWrists' = IF HasPose(r) /\ textModel # NoMesh
                     THEN <<r.poses[1].wristL, r.poses[1].wristR>>
                     ELSE lastWrists

\* Variant of UpdateNoPose that leaves handsUp as it was.
UpdateNoPoseKeep(r) ==
    /\ ~HasPose(r)
    /\ UNCHANGED <<handsUp, markerPos, markerEnabled>>
    /\ Ghosts(r)

\* if (!pose) { this.handsUp = false; return super.update(result, stream); }
UpdateNoPose(r) ==
    /\ ~HasPose(r)
    /\ handsUp' = FALSE
    /\ UNCHANGED <<markerPos, markerEnabled>>
    /\ Ghosts(r)

\* The rest of update(): classify the pose, then position the text model.
UpdatePose(r) ==
    /\ HasPose(r)
    /\ LET pose == r.poses[1]
           up == Hysteresis(handsUp, CosMinOf[pose])
       IN  /\ handsUp' = up
           /\ PositionTextModel(pose, up)
    /\ Ghosts(r)

\* update(result, stream); super.update() touches none of this state.
Update(r) ==
    /\ UpdateNoPose(r) \/ UpdatePose(r)
    /\ UNCHANGED <<textModel, loadPc, loaded>>
    /\ UNCHANGED swapVars

----------------------------------------------------------------------------
(* Model swap: setOutfit(), setModel(), load(), setupScene() *)

DefaultUrl == "onesie.glb"
Urls == { DefaultUrl, "hoodie.glb" }
NoOutfit == "undefined"
Outfits == { NoOutfit, "jacket" }

\* A suspended setOutfit(u, o) call; prev and bound record this.model and the
\* plugin's binding at the time of the call.
Call(id, u, o, from) ==
    [id |-> id, url |-> u, outfit |-> o, from |-> from,
     prev |-> model, bound |-> plugin]

\* Variant of SetOutfitBegin without delete this.model.
SetOutfitBeginKeepsRef(u, o, from) ==
    /\ nCalls < MaxCalls
    /\ sceneMeshes' = sceneMeshes \ {model}
    /\ disposed' = IF model # NoMesh THEN disposed \cup {model} ELSE disposed
    /\ model' = model
    /\ url' = u
    /\ outfit' = o
    /\ nCalls' = nCalls + 1
    /\ calls' = calls \cup { Call(nCalls + 1, u, o, from) }
    /\ UNCHANGED <<plugin, thrown>>

\* Variant of SetOutfitBegin without this.model.dispose(true, true).
SetOutfitBeginNoDispose(u, o, from) ==
    /\ nCalls < MaxCalls
    /\ sceneMeshes' = sceneMeshes \ {model}
    /\ disposed' = disposed
    /\ model' = NoMesh
    /\ url' = u
    /\ outfit' = o
    /\ nCalls' = nCalls + 1
    /\ calls' = calls \cup { Call(nCalls + 1, u, o, from) }
    /\ UNCHANGED <<plugin, thrown>>

\* setOutfit() up to its await: remove and dispose the current mesh, clear
\* the reference, take over url and outfit, start the load.
SetOutfitBegin(u, o, from) ==
    /\ nCalls < MaxCalls
    /\ sceneMeshes' = sceneMeshes \ {model}
    /\ disposed' = IF model # NoMesh THEN disposed \cup {model} ELSE disposed
    /\ model' = NoMesh
    /\ url' = u
    /\ outfit' = o
    /\ nCalls' = nCalls + 1
    /\ calls' = calls \cup { Call(nCalls + 1, u, o, from) }
    /\ UNCHANGED <<plugin, thrown>>

\* A caller's setOutfit(url, outfit); at most `limit` calls are in flight.
SetOutfit(u, o, limit) ==
    /\ Cardinality(calls) < limit
    /\ SetOutfitBegin(u, o, "user")
    /\ UNCHANGED <<textModel, loadPc, loaded>>
    /\ UNCHANGED frameVars

\* A caller's setModel(url)
SetModel(u, limit) ==
    /\ Cardinality(calls) < limit
    /\ SetOutfitBegin(u, outfit, "user")
    /\ UNCHANGED <<textModel, loadPc, loaded>>
    /\ UNCHANGED frameVars

\* load() up to the await of setModel(this.url) in setupScene(); the scene
\* exists once the renderer is attached, so !this.scene is false.
Load(limit) ==
    /\ ~loaded
    /\ loadPc = "idle"
    /\ Cardinality(calls) < limit
    /\ SetOutfitBegin(url, outfit, "load")
    /\ loadPc' = "model"
    /\ UNCHANGED <<textModel, loaded>>
    /\ UNCHANGED frameVars

\* gltf.meshes.find((m) => m.id === "__root__")
FindRoot(id, hasRoot) == IF hasRoot THEN id ELSE NoMesh

\* Variant of SetOutfitEnd without gltf.addAllToScene().
SetOutfitEndNoAttach(c, hasRoot) ==
    /\ c \in calls
    /\ model' = FindRoot(c.id, hasRoot)
    /\ sceneMeshes' = sceneMeshes
    /\ plugin' = [model |-> FindRoot(c.id, hasRoot), outfit |-> c.outfit]
    /\ calls' = calls \ {c}
    /\ loadPc' = IF c.from = "load" THEN "text" ELSE loadPc
    /\ UNCHANGED <<url, outfit, disposed, nCalls, thrown, textModel, loaded>>
    /\ UNCHANGED frameVars

\* The load of call c resolves: the rest of setOutfit(); when the call came
\* from setupScene(), that goes on to the await of the text asset.
SetOutfitEnd(c, hasRoot) ==
    /\ c \in calls
    /\ model' = FindRoot(c.id, hasRoot)
    /\ sceneMeshes' = sceneMeshes \cup ({FindRoot(c.id, hasRoot)} \ {NoMesh})
    /\ plugin' = [model |-> FindRoot(c.id, hasRoot), outfit |-> c.outfit]
    /\ calls' = calls \ {c}
    /\ loadPc' = IF c.from = "load" THEN "text" ELSE loadPc
    /\ UNCHANGED <<url, outfit, disposed, nCalls, thrown, textModel, loaded>>
    /\ UNCHANGED frameVars

\* The load of call c rejects: setOutfit() throws at its await, and so do
\* setModel(), setupScene() and load() above it.
SetOutfitFail(c) ==
    /\ c \in calls
    /\ calls' = calls \ {c}
    /\ thrown' = c.id
    /\ loadPc' = IF c.from = "load" THEN "idle" ELSE loadPc
    /\ UNCHANGED <<model, url, outfit, plugin, sceneMeshes, disposed, nCalls,
                   textModel, loaded>>
    /\ UNCHANGED frameVars

\* text.glb resolves: the rest of setupScene(), then super.load()
TextLoaded(hasRoot) ==
    /\ loadPc = "text"
    /\ textModel' = FindRoot(TextRoot, hasRoot)
    /\ sceneMeshes' = sceneMeshes \cup ({FindRoot(TextRoot, hasRoot)} \ {NoMesh})
    /\ loaded' = TRUE
    /\ loadPc' = "done"
    /\ UNCHANGED <<model, url, outfit, plugin, disposed, calls, nCalls, thrown>>
    /\ UNCHANGED frameVars

\* text.glb rejects: setupScene() and load() throw
TextFail ==
    /\ loadPc = "text"
    /\ loadPc' = "idle"
    /\ thrown' = TextRoot
    /\ UNCHANGED <<model, url, outfit, plugin, sceneMeshes, disposed, calls,
                   nCalls, textModel, loaded>>
    /\ UNCHANGED frameVars

----------------------------------------------------------------------------
(* Specifications *)

\* The state after the constructor
Init ==
    /\ handsUp = FALSE
    /\ textModel = NoMesh
    /\ markerPos = Zero
    /\ markerEnabled = TRUE
    /\ model = NoMesh
    /\ url = DefaultUrl
    /\ outfit \in Outfits
    /\ plugin = [model |-> NoMesh, outfit |-> outfit]
    /\ sceneMeshes = {}
    /\ disposed = {}
    /\ calls = {}
    /\ nCalls = 0
    /\ thrown = NoMesh
    /\ loadPc = "idle"
    /\ loaded = FALSE
    /\ result = NoPoses
    /\ decisive = "none"
    /\ lastWrists = <<>>

\* The calls a caller can make, with at most `limit` loads of setOutfit in flight
Calls(limit) ==
    \/ Load(limit)
    \/ \E u \in Urls, o \in Outfits : SetOutfit(u, o, limit)
    \/ \E u \in Urls : SetModel(u, limit)

Loader ==
    \/ \E c \in calls, hasRoot \in BOOLEAN : SetOutfitEnd(c, hasRoot)
    \/ \E c \in calls : SetOutfitFail(c)
    \/ \E hasRoot \in BOOLEAN : TextLoaded(hasRoot)
    \/ TextFail

Frame == \E r \in Results : Update(r)

\* setOutfit calls serialized, as the component requires of its callers
Next == Calls(1) \/ Loader \/ Frame
Spec == Init /\ [][Next]_vars

\* setOutfit calls that overlap
NextRace == Calls(MaxInFlight) \/ Loader \/ Frame
SpecRace == Init /\ [][NextRace]_vars

----------------------------------------------------------------------------
(* Properties.  update() records its argument in result, so a step is the   *)
(* update call of a frame exactly when it is an Update(result') step.       *)

\* The hysteresis rule as the specification words it
ThreeCase(prev, cosMin) ==
    IF CosLess(Cos08, cosMin) THEN TRUE
    ELSE IF CosLess(cosMin, Cos07) THEN FALSE
    ELSE prev

InBand(cosMin) == ~CosLess(Cos08, cosMin) /\ ~CosLess(cosMin, Cos07)

AvatarsInScene == sceneMeshes \cap Avatars

\* C1: every update call with a pose sets handsUp to TRUE when cosMin > 0.8,
\* to FALSE when cosMin < 0.7, and leaves it as it was when
\* 0.7 <= cosMin <= 0.8, both bounds included.
C1_Hysteresis ==
    [][HasPose(result') /\ Update(result') =>
          LET cosMin == CosMinOf[result'.poses[1]]
          IN  /\ CosLess(Cos08, cosMin) => handsUp' = TRUE
              /\ CosLess(cosMin, Cos07) => handsUp' = FALSE
              /\ InBand(cosMin) => handsUp' = handsUp]_vars

\* A frame with cosMin exactly 0.8 has left handsUp TRUE.
C1_Witness ==
    /\ HasPose(result)
    /\ CosEq(CosMinOf[result.poses[1]], Cos08)
    /\ handsUp = TRUE

\* C2: after every update call made while the marker exists, the marker is
\* enabled exactly when handsUp is TRUE, frames without a pose included.
C2_MarkerFollowsHandsUp ==
    [][Update(result') /\ textModel # NoMesh
          => markerEnabled' = handsUp']_vars

\* C3 as claimed: handsUp rises only in a frame with cosMin > 0.8 and falls
\* only in a frame with cosMin < 0.7.
C3_ChangesOnlyOnCrossing ==
    [][handsUp' # handsUp =>
          /\ HasPose(result')
          /\ Update(result')
          /\ handsUp' => CosLess(Cos08, CosMinOf[result'.poses[1]])
          /\ ~handsUp' => CosLess(CosMinOf[result'.poses[1]], Cos07)]_vars

\* C3 as amended: handsUp rises only in a frame with cosMin > 0.8 and falls
\* only in a frame with cosMin < 0.7 or in a frame without a pose.
C3_ChangesOnlyOnCrossingOrNoPose ==
    [][handsUp' # handsUp =>
          /\ Update(result')
          /\ handsUp' =>
                HasPose(result') /\ CosLess(Cos08, CosMinOf[result'.poses[1]])
          /\ ~handsUp' =>
                \/ ~HasPose(result')
                \/ CosLess(CosMinOf[result'.poses[1]], Cos07)]_vars

\* handsUp has risen and then stayed up through a frame with cosMin exactly 0.7.
C3_Witness ==
    /\ HasPose(result)
    /\ CosEq(CosMinOf[result.poses[1]], Cos07)
    /\ handsUp = TRUE

\* C4: an update call without a pose sets handsUp to FALSE and leaves the
\* marker position as it was.
C4_NoPoseResets ==
    [][~HasPose(result') /\ Update(result') =>
          /\ handsUp' = FALSE
          /\ markerPos' = markerPos]_vars

\* A frame without a pose arrived while the hands were up and the marker shown
\* at a wrist midpoint: handsUp fell, the position stayed.
C4_Witness ==
    /\ ~HasPose(result)
    /\ handsUp = FALSE
    /\ markerEnabled
    /\ lastWrists # <<>>
    /\ markerPos # Zero

\* C5: handsUp is TRUE exactly when the most recent decisive frame was a pose
\* with cosMin > 0.8; with no decisive frame so far it is FALSE.
C5_LastDecisiveFrame == handsUp = (decisive = "up")

\* After a decisive frame up, a frame strictly inside the band has kept it up.
C5_Witness ==
    /\ HasPose(result)
    /\ CosLess(Cos07, CosMinOf[result.poses[1]])
    /\ CosLess(CosMinOf[result.poses[1]], Cos08)
    /\ decisive = "up"
    /\ handsUp = TRUE

\* C6: with no marker object, an update call with a pose writes neither the
\* marker position nor its visibility, raises nothing, and still moves
\* handsUp by the hysteresis rule.
C6_NoMarkerNoWrite ==
    [][HasPose(result') /\ textModel = NoMesh /\ Update(result') =>
          /\ markerPos' = markerPos
          /\ markerEnabled' = markerEnabled
          /\ thrown' = thrown
          /\ handsUp' = ThreeCase(handsUp, CosMinOf[result'.poses[1]])]_vars

\* The text asset was loaded without a "__root__" mesh, and a posed frame has
\* raised handsUp with the marker state untouched.
C6_Witness ==
    /\ loaded
    /\ textModel = NoMesh
    /\ HasPose(result)
    /\ handsUp = TRUE
    /\ markerPos = Zero
    /\ lastWrists = <<>>

\* C7: the marker position is the midpoint of the wrists of the most recent
\* posed frame processed while the marker existed: twice the position is the
\* sum of the two wrists.
C7_MarkerAtMidpoint ==
    lastWrists # <<>> =>
        Scale(markerPos, 2) = Scale(Add(lastWrists[1], lastWrists[2]), LerpDen)

\* wristL = (0,0,0) and wristR = (2,0,0) put the marker at (1,0,0).
C7_Witness ==
    /\ lastWrists = <<Vec(0, 0, 0), Vec(2, 0, 0)>>
    /\ markerPos = Scale(Vec(1, 0, 0), LerpDen)
    /\ textModel = TextRoot

\* C8: when the load of a setOutfit call fails, the failure reaches the
\* caller, no load is started in its place, and the instance stays as the
\* call left it before the load: previous mesh out of the scene and disposed,
\* model absent, url and outfit as requested, plugin bound as before the call.
C8_FailureLeavesInFlightState ==
    [][\A c \in calls : SetOutfitFail(c) =>
          /\ thrown' = c.id
          /\ calls' = {}
          /\ nCalls' = nCalls
          /\ model' = NoMesh
          /\ url' = c.url
          /\ outfit' = c.outfit
          /\ plugin' = c.bound
          /\ c.prev # NoMesh => c.prev \notin sceneMeshes' /\ c.prev \in disposed'
          /\ AvatarsInScene' = {}]_vars

\* The latest call replaced a bound mesh and its load failed: the mesh is
\* disposed, nothing is attached, and the plugin is still bound to it.
C8_Witness ==
    /\ thrown = nCalls
    /\ thrown \in Avatars
    /\ calls = {}
    /\ model = NoMesh
    /\ plugin.model \in disposed
    /\ AvatarsInScene = {}

\* C9: a setOutfit call removes and disposes the previous mesh and clears
\* model before its load starts; while the load is in flight model is absent
\* and no avatar mesh is attached; on completion exactly the loaded root mesh
\* is attached, referenced by model and bound to the plugin with the
\* requested outfit.
C9_SwapOrder ==
    [][/\ \A c \in calls' \ calls :
              /\ c.prev = model
              /\ model # NoMesh => model \notin sceneMeshes' /\ model \in disposed'
       /\ calls' # {} => model' = NoMesh /\ AvatarsInScene' = {}
       /\ \A c \in calls, hasRoot \in BOOLEAN : SetOutfitEnd(c, hasRoot) =>
              LET mesh == IF hasRoot THEN c.id ELSE NoMesh
              IN  /\ model' = mesh
                  /\ AvatarsInScene' = {mesh} \ {NoMesh}
                  /\ plugin' = [model |-> mesh, outfit |-> c.outfit]]_vars

\* A swap has completed that replaced an earlier mesh.
C9_Witness ==
    /\ calls = {}
    /\ model # NoMesh
    /\ disposed # {}
    /\ AvatarsInScene = {model}
    /\ plugin.model = model
    /\ plugin.outfit = outfit

\* C10: at no time are two undisposed avatar meshes attached to the scene,
\* and every attached avatar mesh is the one model references.
C10_SingleOwnedMesh ==
    /\ Cardinality(AvatarsInScene \ disposed) <= 1
    /\ \A m \in AvatarsInScene : m = model

====
